---- MODULE Spec2Model ----
(***************************************************************************)
(* Model of the semantic text splitter (package semchunk):                 *)
(*   NewTextSplitter / WithPreservePatterns   construction                  *)
(*   innerSplit, longestSplitter, LookbehindSplit, ContainsSpace            *)
(*   TextSplitter.split (recursive), TextSplitter.mergeSplits, Split        *)
(*                                                                         *)
(* A string is a sequence of characters, each character a one-element      *)
(* TLA+ string.  A span is a record [s, off]: the characters, and the       *)
(* offset (0-based, in characters) of its first character in the text      *)
(* given to Split.  `off` is history: a Go string cut out of another is a  *)
(* slice of the parent's bytes, and the model keeps where that slice lies. *)
(* The code never reads it.                                                *)
(***************************************************************************)
EXTENDS Integers, Sequences, FiniteSets, TLC

\* ------------------------------------------------------------------ bounds
MaxLen == 2          \* longest text handed to Split, in characters
MaxChunk == 3        \* largest chunkSize handed to NewTextSplitter
Den == 2             \* fractions f are k/Den
MaxWords == 4        \* most words of a delimited text
MaxSpan == 3         \* longest span handed to innerSplit on its own
MaxFrags == 3        \* most fragments handed to mergeSplits on its own

\* -------------------------------------------------------------- characters
FWStop == "U+3002"   \* the ideographic full stop, 3 bytes in UTF-8
FWComma == "U+FF0C"  \* the full-width comma, 3 bytes in UTF-8

Alphabet == {"a", " ", "\n", "\t", ".", ",", FWStop}

NBSP == "U+00A0"     \* the no-break space, 2 bytes in UTF-8

\* len() of a one-character Go string, in bytes.
ByteLen(c) == IF c \in {FWStop, FWComma} THEN 3 ELSE IF c = NBSP THEN 2 ELSE 1

RECURSIVE len(_)
len(s) == IF s = <<>> THEN 0 ELSE ByteLen(Head(s)) + len(Tail(s))

\* The countTokenFunc of the tests of mergeSplits: len(text).
countTokenFunc(text) == len(text)

fullWidthNonWhitespaceSemanticSpliters ==
    << <<FWStop>>, <<"U+FF1F">>, <<"U+FF01">>,
       <<FWComma>>, <<"U+FF1B">>, <<"U+3001">>, <<"U+FF1A">>, <<"U+FF0D">> >>

nonWhitespaceSemanticSplitters ==
    << <<".">>, <<"?">>, <<"!">>,
       <<"U+2014">>, <<"U+2026">>, <<",">>, <<";">>, <<":">> >>

\* [\r\n], \t and Go's \s (RE2: [\t\n\f\r ]).
NewlineClass == {"\n", "\r"}
TabClass == {"\t"}
WhitespaceClass == {"\t", "\n", "\f", "\r", " "}
\* unicode.IsSpace, on the characters a text can hold here.
IsSpace(c) == c \in {"\t", "\n", "\f", "\r", " ", "U+000B", NBSP, "U+3000"}

\* ------------------------------------------------------- string primitives
Min(S) == CHOOSE x \in S : \A y \in S : x <= y

Sub(span, a, b) == [s |-> SubSeq(span.s, a, b), off |-> span.off + a - 1]

HasAt(s, sub, i) ==
    /\ i >= 1
    /\ i + Len(sub) - 1 <= Len(s)
    /\ SubSeq(s, i, i + Len(sub) - 1) = sub

\* strings.Index from position `from` (1-based); 0 when absent.
Index(s, sub, from) ==
    LET I == {i \in from..(Len(s) - Len(sub) + 1) : HasAt(s, sub, i)}
    IN  IF I = {} THEN 0 ELSE Min(I)

\* strings.Contains
Contains(s, sub) ==
    IF Len(sub) = 1 THEN \E i \in 1..Len(s) : s[i] = sub[1]
    ELSE Index(s, sub, 1) # 0

\* The start positions of the leftmost non-overlapping occurrences of a
\* non-empty literal: regexp.FindAllStringIndex of a quoted pattern, and
\* the cut points of strings.Split.
RECURSIVE FindAllLiteral(_, _, _)
FindAllLiteral(s, sub, from) ==
    LET i == Index(s, sub, from)
    IN  IF i = 0 THEN <<>> ELSE <<i>> \o FindAllLiteral(s, sub, i + Len(sub))

\* The maximal runs of characters of `class`, left to right:
\* regexp.FindAllString of `[class]+`.
RECURSIVE FindAllRuns(_, _)
FindAllRuns(s, class) ==
    IF s = <<>> THEN <<>>
    ELSE IF Head(s) \notin class THEN FindAllRuns(Tail(s), class)
    ELSE LET stop == {i \in 1..Len(s) : s[i] \notin class}
             n == IF stop = {} THEN Len(s) ELSE Min(stop) - 1
         IN  <<SubSeq(s, 1, n)>> \o FindAllRuns(SubSeq(s, n + 1, Len(s)), class)

\* The pieces of span between the occurrences (width `w`) at `starts`.
RECURSIVE Cut(_, _, _, _)
Cut(span, starts, w, last) ==
    IF starts = <<>> THEN <<Sub(span, last, Len(span.s))>>
    ELSE <<Sub(span, last, Head(starts) - 1)>>
         \o Cut(span, Tail(starts), w, Head(starts) + w)

\* strings.Split(text, sep): with sep = "" one piece per character (none
\* for the empty text), otherwise the pieces between the occurrences.
stringsSplit(span, sep) ==
    IF sep = <<>> THEN [i \in 1..Len(span.s) |-> Sub(span, i, i)]
    ELSE Cut(span, FindAllLiteral(span.s, sep, 1), Len(sep), 1)

\* strings.Join of strings.
RECURSIVE stringsJoin(_, _)
stringsJoin(elems, sep) ==
    IF elems = <<>> THEN <<>>
    ELSE IF Len(elems) = 1 THEN elems[1]
    ELSE elems[1] \o sep \o stringsJoin(Tail(elems), sep)

\* ------------------------------------------------------------- utils.go
RECURSIVE LookbehindParts(_, _, _, _, _)
LookbehindParts(span, matches, precededBy, w, lastIndex) ==
    IF matches = <<>> THEN <<Sub(span, lastIndex, Len(span.s))>>
    ELSE <<[s |-> SubSeq(span.s, lastIndex, Head(matches) - 1) \o precededBy,
            off |-> span.off + lastIndex - 1]>>
         \o LookbehindParts(span, Tail(matches), precededBy, w, Head(matches) + w)

\* A split at every splitter, whatever precedes it.
SplitAtSplitter(span, precededBy, splitter) == stringsSplit(span, splitter)

LookbehindSplit(span, precededBy, splitter) ==
    LET matches == FindAllLiteral(span.s, precededBy \o splitter, 1)
    IN  LookbehindParts(span, matches, precededBy,
                        Len(precededBy) + Len(splitter), 1)

ContainsSpace(text) == \E i \in 1..Len(text) : IsSpace(text[i])

\* ----------------------------------------------------------- innerSplit
\* A scan that keeps the last of the longest strings.
RECURSIVE longestFromLast(_, _)
longestFromLast(longest, rest) ==
    IF rest = <<>> THEN longest
    ELSE longestFromLast(IF len(Head(rest)) >= len(longest) THEN Head(rest) ELSE longest,
                         Tail(rest))

\* The first of the longest strings of a non-empty list.
RECURSIVE longestFrom(_, _)
longestFrom(longest, rest) ==
    IF rest = <<>> THEN longest
    ELSE longestFrom(IF len(Head(rest)) > len(longest) THEN Head(rest) ELSE longest,
                     Tail(rest))

longestSplitter(splitters) ==
    IF Len(splitters) = 0 THEN <<>> ELSE longestFrom(Head(splitters), Tail(splitters))

\* The parts around the matches of one preserve pattern.
RECURSIVE PreserveParts(_, _, _, _)
PreserveParts(span, matches, w, lastIndex) ==
    IF matches = <<>>
    THEN IF lastIndex <= Len(span.s) THEN <<Sub(span, lastIndex, Len(span.s))>> ELSE <<>>
    ELSE LET start == Head(matches)
         IN  (IF start > lastIndex THEN <<Sub(span, lastIndex, start - 1)>> ELSE <<>>)
             \o <<Sub(span, start, start + w - 1)>>
             \o PreserveParts(span, Tail(matches), w, start + w)

\* A scan that takes the last element of the list the text contains.
LastContained(list, text) ==
    LET I == {i \in 1..Len(list) : Contains(text, list[i])}
    IN  IF I = {} THEN <<>> ELSE <<list[CHOOSE i \in I : \A j \in I : j <= i]>>

\* The first element of `list` satisfying Test, as a one-element or empty
\* sequence (the loops `for _, x := range list { if ... return }`).
FirstContained(list, text) ==
    LET I == {i \in 1..Len(list) : Contains(text, list[i])}
    IN  IF I = {} THEN <<>> ELSE <<list[Min(I)]>>

\* The first preceder that some whitespace character follows in the text,
\* with the position of that first match: regexp `preceder(\s)`.
PrecederMatch(text) ==
    LET Pos(p) == {i \in 1..(Len(text) - Len(p)) :
                      HasAt(text, p, i) /\ text[i + Len(p)] \in WhitespaceClass}
        I == {i \in 1..Len(nonWhitespaceSemanticSplitters) :
                 Pos(nonWhitespaceSemanticSplitters[i]) # {}}
    IN  IF I = {} THEN <<>>
        ELSE LET p == nonWhitespaceSemanticSplitters[Min(I)]
             IN  <<[preceder |-> p, splitter |-> <<text[Min(Pos(p)) + Len(p)]>>]>>

Ret(splitter, isWs, splits) ==
    [splitter |-> splitter, splitterIsWhitespace |-> isWs, splits |-> splits]

HasAny(text, class) == \E i \in 1..Len(text) : text[i] \in class

\* The two layout branches: split at the longest run of the class.
SplitAtLongest(span, longest) == Ret(longest, TRUE, stringsSplit(span, longest))

\* The preserve-pattern branch, for the first pattern that matches.
SplitAroundPattern(span, p) ==
    Ret(<<>>, TRUE, PreserveParts(span, FindAllLiteral(span.s, p, 1), Len(p), 1))

\* The two terminator branches: split at a terminator the text contains.
SplitAtTerminator(span, splitter) == Ret(splitter, FALSE, stringsSplit(span, splitter))

\* The whitespace branch: `longest` is the longest whitespace run, `pm`
\* the match of a preceder followed by whitespace, if any.
SplitAtWhitespace(span, longest, pm) ==
    IF len(longest) = 1 /\ pm # <<>>
    THEN Ret(pm[1].splitter, TRUE, LookbehindSplit(span, pm[1].preceder, pm[1].splitter))
    ELSE Ret(longest, TRUE, stringsSplit(span, longest))

\* The branches after the preserve patterns.
SplitAtText(span, fw, hw) ==
    IF fw # <<>> THEN SplitAtTerminator(span, fw[1])
    ELSE IF ContainsSpace(span.s) /\ HasAny(span.s, WhitespaceClass)
        THEN SplitAtWhitespace(span, longestSplitter(FindAllRuns(span.s, WhitespaceClass)),
                               PrecederMatch(span.s))
    ELSE IF hw # <<>> THEN SplitAtTerminator(span, hw[1])
    ELSE Ret(<<>>, TRUE, stringsSplit(span, <<>>))

innerSplit(span, preservePatterns) ==
    LET text == span.s
        pats == {i \in 1..Len(preservePatterns) : Contains(text, preservePatterns[i])}
    IN  IF HasAny(text, NewlineClass)
            THEN SplitAtLongest(span, longestSplitter(FindAllRuns(text, NewlineClass)))
        ELSE IF HasAny(text, TabClass)
            THEN SplitAtLongest(span, longestSplitter(FindAllRuns(text, TabClass)))
        ELSE IF pats # {}
            THEN SplitAroundPattern(span, preservePatterns[Min(pats)])
        ELSE SplitAtText(span,
                         FirstContained(fullWidthNonWhitespaceSemanticSpliters, text),
                         FirstContained(nonWhitespaceSemanticSplitters, text))

\* An estimate that leaves the cost of the splitter out.
estimateSizeNoSplitter(size, splitSize, splitterSize, appendSplitter) ==
    size + splitSize

estimateSize(size, splitSize, splitterSize, appendSplitter) ==
    size + splitSize + (IF appendSplitter THEN splitterSize ELSE 0)

\* ------------------------------------------------------------------ inputs
\* Fractions handed to NewTextSplitter are k/Den.  With Den <= 3 and
\* chunkSize <= MaxChunk + 1 the float32 product overlapFloat *
\* float32(chunkSize) converts to the integer (k * chunkSize) \div Den.
ChunkSizes == 0..MaxChunk
IntOverlaps == (0 - 1)..(MaxChunk + 1)
Numerators == (0 - 1)..(Den + 1)

\* What WithPreservePatterns is given: nothing, or two literal patterns.
PatternLists == { <<>>, << <<"a", ".">>, <<",", "\t">> >> }

\* Every text of at most MaxLen characters over the alphabet.
RECURSIVE SeqsUpTo(_, _)
SeqsUpTo(S, n) ==
    IF n = 0 THEN {<<>>}
    ELSE LET shorter == SeqsUpTo(S, n - 1)
         IN  shorter \cup {Append(t, c) : t \in {u \in shorter : Len(u) = n - 1}, c \in S}

ShortTexts == SeqsUpTo(Alphabet, MaxLen)

\* Longer texts: up to MaxWords words separated by one delimiter.
Words == { <<>>, <<"a">>, <<"a", "a">>, <<"a", "a", "a">> }
Delimiters == { <<".">>, <<FWStop>> }
WordTexts ==
    {stringsJoin(ws, d) : ws \in UNION {[1..n -> Words] : n \in 2..MaxWords},
                          d \in Delimiters}

Texts == ShortTexts \cup WordTexts

\* ------------------------------------------------------------------- state
VARIABLES
    pc,       \* "new", "ready", "error", "split", "merge", "done", "fatal"
    args,     \* the arguments NewTextSplitter was called with
    ts,       \* the TextSplitter: chunkSize, overlap, PreservePatterns
    err,      \* the error NewTextSplitter returned, "" for nil
    input,    \* the text Split was called with
    stack,    \* the activations of split, innermost last
    m,        \* the activation of mergeSplits, when pc = "merge"
    result,   \* what Split returned
    fatal,    \* the runtime error that ended the program, "" for none
    consumed  \* history: the offsets in the input of the characters of
              \* the delimiter occurrences innerSplit has cut out so far

vars == <<pc, args, ts, err, input, stack, m, result, fatal, consumed>>

NoArgs == [kind |-> "none"]
NilSplitter == [chunkSize |-> 0, overlap |-> 0, PreservePatterns |-> <<>>, nil |-> TRUE]
NoMerge == [active |-> FALSE]

Init ==
    /\ pc = "new"
    /\ args = NoArgs
    /\ ts = NilSplitter
    /\ err = ""
    /\ input = <<>>
    /\ stack = <<>>
    /\ m = NoMerge
    /\ result = <<>>
    /\ fatal = ""
    /\ consumed = {}

\* -------------------------------------------------------- NewTextSplitter
\* The overlap NewTextSplitter stores for an int argument: the branch
\* `else if overlapInt, ok := any(overlap).(int); ok` declares a new
\* overlapInt, so the outer one, which is stored, keeps its zero value.
IntOverlapStored(o) == 0

\* int(overlapFloat * float32(chunkSize)) for overlapFloat = k/Den.
FloatOverlapStored(chunkSize, k) == (k * chunkSize) \div Den

\* A range check that takes the fraction 1 for out of range.
FloatOutOfRangeStrict(k) == k < 0 \/ k >= Den

\* overlapFloat < 0 || overlapFloat > 1, for overlapFloat = k/Den.
FloatOutOfRange(k) == k < 0 \/ k > Den

\* overlapInt < 0 || overlapInt > chunkSize
IntOutOfRange(chunkSize, o) == o < 0 \/ o > chunkSize

NewSplitter(chunkSize, o, patterns) ==
    [chunkSize |-> chunkSize, overlap |-> o, PreservePatterns |-> patterns, nil |-> FALSE]

NewTextSplitterInt(chunkSize, o, patterns) ==
    /\ pc = "new"
    /\ args' = [kind |-> "int", chunkSize |-> chunkSize, overlap |-> o]
    /\ IF IntOutOfRange(chunkSize, o)
       THEN /\ err' = "overlap must be between 0 and chunkSize"
            /\ ts' = NilSplitter
            /\ pc' = "error"
       ELSE /\ err' = ""
            /\ ts' = NewSplitter(chunkSize, IntOverlapStored(o), patterns)
            /\ pc' = "ready"
    /\ UNCHANGED <<input, stack, m, result, fatal, consumed>>

NewTextSplitterFloat(chunkSize, k, patterns) ==
    /\ pc = "new"
    /\ args' = [kind |-> "float32", chunkSize |-> chunkSize, num |-> k]
    /\ IF FloatOutOfRange(k)
       THEN /\ err' = "overlap must be between 0 and 1"
            /\ ts' = NilSplitter
            /\ pc' = "error"
       ELSE /\ err' = ""
            /\ ts' = NewSplitter(chunkSize, FloatOverlapStored(chunkSize, k), patterns)
            /\ pc' = "ready"
    /\ UNCHANGED <<input, stack, m, result, fatal, consumed>>

\* ------------------------------------------------------------------ split
\* A new activation of split(text, chunkSize, recursionDepth): the state
\* after the call of innerSplit and the three make()s.
Frame(span) ==
    LET r == innerSplit(span, ts.PreservePatterns)
    IN  [text |-> span, splitter |-> r.splitter, splits |-> r.splits, i |-> 1,
         goodSplits |-> <<>>, goodSplitSizes |-> <<>>, goodSplitIds |-> <<>>,
         rets |-> <<>>]

\* The offsets of a span, and those of them that none of the frame's
\* splits holds: the delimiter occurrences.
Range(span) == span.off..(span.off + Len(span.s) - 1)
Delimited(f) == Range(f.text) \ UNION {Range(f.splits[j]) : j \in 1..Len(f.splits)}

Top == stack[Len(stack)]
SetTop(f) == [stack EXCEPT ![Len(stack)] = f]

Split(text) ==
    /\ pc = "ready"
    /\ input' = text
    /\ args' = NoArgs
    /\ \E f \in {Frame([s |-> text, off |-> 0])} :
           /\ stack' = <<f>>
           /\ consumed' = Delimited(f)
    /\ pc' = "split"
    /\ UNCHANGED <<ts, err, m, result, fatal>>

\* for i, split := range splits, with l < chunkSize: the split is buffered.
SplitGood ==
    /\ pc = "split"
    /\ Top.i <= Len(Top.splits)
    /\ LET split == Top.splits[Top.i]
           l == countTokenFunc(split.s)
       IN  /\ l < ts.chunkSize
           /\ stack' = SetTop([Top EXCEPT
                  !.goodSplits = Append(@, split),
                  !.goodSplitSizes = Append(@, l),
                  !.goodSplitIds = Append(@, Top.i - 1),
                  !.i = @ + 1])
    /\ UNCHANGED <<pc, args, ts, err, input, m, result, fatal, consumed>>

\* The call mergeSplits(goodSplits, goodSplitSizes, goodSplitIds, splitter,
\* chunkSize): the state before its loop.
MergeCall(f) ==
    [active |-> TRUE, splits |-> f.goodSplits, splitSizes |-> f.goodSplitSizes,
     splitIds |-> f.goodSplitIds, splitter |-> f.splitter,
     splitterSize |-> countTokenFunc(f.splitter),
     i |-> 1, toMerge |-> <<>>, size |-> 0, merges |-> <<>>]

\* An over-budget split with good splits buffered, or the end of the loop
\* with good splits buffered: mergeSplits is called.
SplitFlush ==
    /\ pc = "split"
    /\ Len(Top.goodSplits) > 0
    /\ \/ Top.i > Len(Top.splits)
       \/ /\ Top.i <= Len(Top.splits)
          /\ countTokenFunc(Top.splits[Top.i].s) >= ts.chunkSize
    /\ m' = MergeCall(Top)
    /\ pc' = "merge"
    /\ UNCHANGED <<args, ts, err, input, stack, result, fatal, consumed>>

\* An over-budget split, nothing buffered: c.split(split, chunkSize,
\* recursionDepth+1).  A call on the very span of its caller repeats the
\* caller's computation and never returns: the goroutine's stack overflows.
SplitRecurse ==
    /\ pc = "split"
    /\ Top.i <= Len(Top.splits)
    /\ Len(Top.goodSplits) = 0
    /\ LET split == Top.splits[Top.i]
       IN  /\ countTokenFunc(split.s) >= ts.chunkSize
           /\ \E f \in {Frame(split)} :
                  /\ stack' = Append(stack, f)
                  /\ consumed' = consumed \cup Delimited(f)
           /\ IF split.s = Top.text.s
              THEN pc' = "fatal" /\ fatal' = "stack overflow"
              ELSE pc' = "split" /\ fatal' = ""
    /\ UNCHANGED <<args, ts, err, input, m, result>>

\* A return whose caller puts the new chunks before the ones it has.
ReturnPrepended(rets) ==
    IF Len(stack) = 1
    THEN /\ result' = rets
         /\ stack' = <<>>
         /\ pc' = "done"
    ELSE LET caller == stack[Len(stack) - 1]
         IN  /\ stack' = [SubSeq(stack, 1, Len(stack) - 1) EXCEPT ![Len(stack) - 1] =
                            [caller EXCEPT !.rets = rets \o @, !.i = @ + 1]]
             /\ pc' = "split"
             /\ UNCHANGED result

\* return rets, to the caller's `rets = append(rets, newSplits...)` or to
\* Split.
Return(rets) ==
    IF Len(stack) = 1
    THEN /\ result' = rets
         /\ stack' = <<>>
         /\ pc' = "done"
    ELSE LET caller == stack[Len(stack) - 1]
         IN  /\ stack' = [SubSeq(stack, 1, Len(stack) - 1) EXCEPT ![Len(stack) - 1] =
                            [caller EXCEPT !.rets = @ \o rets, !.i = @ + 1]]
             /\ pc' = "split"
             /\ UNCHANGED result

SplitReturn ==
    /\ pc = "split"
    /\ Top.i > Len(Top.splits)
    /\ Len(Top.goodSplits) = 0
    /\ Return(Top.rets)
    /\ UNCHANGED <<args, ts, err, input, m, fatal, consumed>>

\* ------------------------------------------------------------ mergeSplits
\* A join that leaves the splitter out.
MergedWithoutSplitter(toMerge, splitter) ==
    [s |-> stringsJoin([j \in 1..Len(toMerge) |-> toMerge[j].s], <<>>),
     off |-> IF toMerge = <<>> THEN 0 ELSE toMerge[1].off]

\* strings.Join(toMerge, splitter), where the chunk lies in the input.
Merged(toMerge, splitter) ==
    [s |-> stringsJoin([j \in 1..Len(toMerge) |-> toMerge[j].s], splitter),
     off |-> IF toMerge = <<>> THEN 0 ELSE toMerge[1].off]

Emit(merges, toMerge, splitter) ==
    LET merged == Merged(toMerge, splitter)
    IN  IF len(merged.s) > 0 THEN Append(merges, merged) ELSE merges

\* The loop that pops from the front of toMerge, for the split of size l.
\* e is [size, toMerge, splitIds, panic]; splitIds holds Go's 0-based
\* indexes into splitSizes.
RECURSIVE Evict(_, _, _, _)
Evict(e, l, splitSizes, splitterSize) ==
    IF ~ ( \/ e.size > ts.overlap
           \/ /\ estimateSize(e.size, l, splitterSize, Len(e.toMerge) > 0) > ts.chunkSize
              /\ e.size > 0 )
    THEN e
    ELSE IF Len(e.splitIds) = 0 \/ e.splitIds[1] >= Len(splitSizes)
    THEN [e EXCEPT !.panic = "index out of range"]
    ELSE IF Len(e.toMerge) = 0
    THEN [e EXCEPT !.panic = "slice bounds out of range"]
    ELSE Evict([size |-> e.size - splitSizes[e.splitIds[1] + 1]
                           - (IF Len(e.toMerge) > 1 THEN splitterSize ELSE 0),
                toMerge |-> Tail(e.toMerge),
                splitIds |-> Tail(e.splitIds),
                panic |-> ""],
               l, splitSizes, splitterSize)

\* One iteration of `for i, split := range splits`.
MergeIteration(mm) ==
    LET split == mm.splits[mm.i]
        l == mm.splitSizes[mm.i]
        over == estimateSize(mm.size, l, mm.splitterSize, Len(mm.toMerge) > 0) > ts.chunkSize
        e0 == [size |-> mm.size, toMerge |-> mm.toMerge, splitIds |-> mm.splitIds,
               panic |-> ""]
        e == IF ~over THEN e0
             ELSE IF ts.overlap > 0 THEN Evict(e0, l, mm.splitSizes, mm.splitterSize)
             ELSE [e0 EXCEPT !.toMerge = <<>>, !.size = 0]
        toMerge == Append(e.toMerge, split)
    IN  [mm EXCEPT
            !.merges = IF over THEN Emit(@, mm.toMerge, mm.splitter) ELSE @,
            !.toMerge = toMerge,
            !.splitIds = e.splitIds,
            !.size = e.size + l + (IF Len(toMerge) > 1 THEN mm.splitterSize ELSE 0),
            !.i = @ + 1]
        @@ [panic |-> e.panic]

MergeStep ==
    /\ pc = "merge"
    /\ m.i <= Len(m.splits)
    /\ \E n \in {MergeIteration(m)} :
           IF n.panic # ""
           THEN /\ fatal' = n.panic
                /\ pc' = "fatal"
                /\ m' = m
           ELSE /\ m' = [k \in DOMAIN m |-> n[k]]
                /\ UNCHANGED <<pc, fatal>>
    /\ UNCHANGED <<args, ts, err, input, stack, result, consumed>>

\* The end of mergeSplits' loop: the last chunk, `return merges`, and the
\* caller's `rets = append(rets, merges...)`; in the loop of split the
\* three buffers are made anew, after it split returns rets.
MergeReturn ==
    /\ pc = "merge"
    /\ m.i > Len(m.splits)
    /\ LET merges == IF Len(m.toMerge) > 0 THEN Emit(m.merges, m.toMerge, m.splitter)
                     ELSE m.merges
           rets == Top.rets \o merges
       IN  IF Top.i <= Len(Top.splits)
           THEN /\ stack' = SetTop([Top EXCEPT !.rets = rets, !.goodSplits = <<>>,
                                       !.goodSplitSizes = <<>>, !.goodSplitIds = <<>>])
                /\ pc' = "split"
                /\ UNCHANGED result
           ELSE Return(rets)
    /\ m' = NoMerge
    /\ UNCHANGED <<args, ts, err, input, fatal, consumed>>

Next ==
    \/ pc = "new" /\ \E c \in ChunkSizes, o \in IntOverlaps, p \in PatternLists :
           NewTextSplitterInt(c, o, p)
    \/ pc = "new" /\ \E c \in ChunkSizes, k \in Numerators, p \in PatternLists :
           NewTextSplitterFloat(c, k, p)
    \/ pc = "ready" /\ \E text \in Texts : Split(text)
    \/ SplitGood
    \/ SplitFlush
    \/ SplitRecurse
    \/ SplitReturn
    \/ MergeStep
    \/ MergeReturn

Spec == Init /\ [][Next]_vars

\* ------------------------------------------------------------------ claims
Done == pc = "done"
Max(a, b) == IF a >= b THEN a ELSE b
Offsets == 0..(Len(input) - 1)
Covered == UNION {Range(result[k]) : k \in 1..Len(result)}
Shared(k) == Range(result[k]) \cap Range(result[k + 1])
Terminators ==
    {nonWhitespaceSemanticSplitters[i][1] : i \in 1..Len(nonWhitespaceSemanticSplitters)}
    \cup {fullWidthNonWhitespaceSemanticSpliters[i][1] :
             i \in 1..Len(fullWidthNonWhitespaceSemanticSpliters)}

\* The consumed delimiter characters at the offsets a..b-1 of the input.
RECURSIVE Gap(_, _)
Gap(a, b) ==
    IF a >= b THEN <<>>
    ELSE (IF a \in consumed THEN <<input[a + 1]>> ELSE <<>>) \o Gap(a + 1, b)

\* The chunks from the k-th on, each without the prefix that repeats what
\* the chunks before it gave (`end` characters of the input so far), with
\* the consumed delimiters between them put back.
RECURSIVE Rejoin(_, _)
Rejoin(k, end) ==
    IF k > Len(result) THEN Gap(end, Len(input))
    ELSE LET c == result[k]
             dup == IF end > c.off THEN end - c.off ELSE 0
         IN  Gap(end, c.off) \o SubSeq(c.s, dup + 1, Len(c.s))
             \o Rejoin(k + 1, Max(end, c.off + Len(c.s)))

\* C1: the chunks Split returns for a non-empty text, in order and without
\* the overlapping prefix each later chunk repeats, give back the input
\* once the consumed delimiter occurrences are put between them; what is
\* consumed is whitespace or a terminator, and a split with the empty
\* delimiter consumes nothing.
Reconstruction ==
    /\ (stack # <<>> /\ Top.splitter = <<>>) => Delimited(Top) = {}
    /\ \A p \in consumed : input[p + 1] \in WhitespaceClass \cup Terminators
    /\ (Done /\ input # <<>>) => Rejoin(1, 0) = input

ReconstructionWitness ==
    /\ Done
    /\ ts.overlap > 0
    /\ \E k \in 1..(Len(result) - 1) : Shared(k) # {}
    /\ Offsets \ Covered # {}

\* C2: a chunk of more than one indivisible unit is within the budget, with
\* and without overlap.
BudgetRespect ==
    (Done /\ ts.chunkSize >= 1) =>
        \A k \in 1..Len(result) :
            Len(result[k].s) > 1 => countTokenFunc(result[k].s) <= ts.chunkSize

\* C3: with a budget of at least 1 and every character of the input within
\* it, every recursive call of split is on a span strictly shorter than its
\* caller's, and the recursion does not run away.
CharsWithinBudget ==
    \A i \in 1..Len(input) : countTokenFunc(<<input[i]>>) <= ts.chunkSize

RecursionShrinks ==
    (ts.chunkSize >= 1 /\ CharsWithinBudget) =>
        /\ \A j \in 2..Len(stack) : Len(stack[j].text.s) < Len(stack[j - 1].text.s)
        /\ fatal # "stack overflow"

\* C4: while split works on an indivisible fragment at or over the budget
\* (one character), the program has not failed: the fragment is on its way
\* to being emitted.
IndivisibleEmitted ==
    \A j \in 1..Len(stack) :
        ( /\ ts.chunkSize >= 1
          /\ Len(stack[j].text.s) = 1
          /\ countTokenFunc(stack[j].text.s) >= ts.chunkSize ) => fatal = ""

\* C5: Split raises no index-out-of-range and no slice-bounds panic.
NoRuntimeError ==
    fatal \notin {"index out of range", "slice bounds out of range"}

\* C6: every occurrence of a configured preserve pattern in the input lies
\* wholly inside one returned chunk, and a span that is such an occurrence
\* is not taken apart or split again, whatever its size.  Stated for the
\* budgets that every single character of the input is strictly below, so
\* that no character is itself an over-budget fragment.
CharsBelowBudget ==
    \A i \in 1..Len(input) : countTokenFunc(<<input[i]>>) < ts.chunkSize

Occurrences(p) == {i \in 1..Len(input) : HasAt(input, p, i)}
PreserveIntact ==
    LET pats == {ts.PreservePatterns[n] : n \in 1..Len(ts.PreservePatterns)}
    IN  CharsBelowBudget =>
            /\ \A j \in 2..Len(stack) : stack[j].text.s \notin pats
            /\ Done => \A p \in pats : \A i \in Occurrences(p) :
                          \E k \in 1..Len(result) :
                              (i - 1)..(i + Len(p) - 2) \subseteq Range(result[k])

\* C7 (its bound): with overlap > 0, the part two consecutive chunks share
\* has a token count of at most overlap.
SharedPart(k) ==
    SubSeq(result[k + 1].s, 1, Cardinality(Shared(k)))
OverlapBound ==
    (Done /\ ts.overlap > 0) =>
        \A k \in 1..(Len(result) - 1) : countTokenFunc(SharedPart(k)) <= ts.overlap

\* C8: the overlap the splitter holds is the integer argument itself, or
\* floor(f * chunkSize) for the fraction f = num/Den.
OverlapResolved ==
    pc = "ready" =>
        /\ args.kind = "int" => ts.overlap = args.overlap
        /\ args.kind = "float32" =>
              /\ ts.overlap * Den <= args.num * args.chunkSize
              /\ (ts.overlap + 1) * Den > args.num * args.chunkSize

\* C9: NewTextSplitter fails exactly when the overlap is out of range for
\* its representation, and then returns no splitter; otherwise it returns
\* a splitter and no error.
ConstructionErrors ==
    args.kind # "none" =>
        /\ args.kind = "int" =>
              (pc = "error" <=> (args.overlap < 0 \/ args.overlap > args.chunkSize))
        /\ args.kind = "float32" =>
              (pc = "error" <=> (args.num < 0 \/ args.num > Den))
        /\ pc = "error" => (err # "" /\ ts.nil)
        /\ pc # "error" => (pc = "ready" /\ err = "" /\ ~ts.nil)

ConstructionErrorsWitness ==
    /\ pc = "ready"
    /\ args.kind = "float32"
    /\ args.num = Den
    /\ args.chunkSize = 0

\* C10: the chunks come in input order: a later chunk neither starts nor
\* ends before an earlier one, and with overlap 0 the starts are strictly
\* increasing.
InputOrder ==
    Done =>
        \A k \in 1..(Len(result) - 1) :
            /\ result[k].off <= result[k + 1].off
            /\ result[k].off + Len(result[k].s)
                  <= result[k + 1].off + Len(result[k + 1].s)
            /\ ts.overlap = 0 => result[k].off < result[k + 1].off

\* Chunks of a good run, then of a recursion, then of later fragments.
InputOrderWitness ==
    /\ Done
    /\ ts.overlap = 0
    /\ Len(result) >= 3
    /\ LET r == innerSplit([s |-> input, off |-> 0], ts.PreservePatterns)
       IN  \E j \in 2..(Len(r.splits) - 1) :
               /\ countTokenFunc(r.splits[j].s) >= ts.chunkSize
               /\ r.splits[j - 1].s # <<>>
               /\ countTokenFunc(r.splits[j - 1].s) < ts.chunkSize
               /\ r.splits[j + 1].s # <<>>
               /\ countTokenFunc(r.splits[j + 1].s) < ts.chunkSize

\* ------------------------------------------------- innerSplit on its own
\* innerSplit called as TestInnerSplit calls it: a text and a list of
\* preserve patterns in, (splitter, splitterIsWhitespace, splits) out.
\* `args` holds the arguments and `result` what the call returned.
SpanAlphabet == {"a", " ", "\n", "\r", "\t", "\f", NBSP, ".", ",", FWStop, FWComma}
SpanTexts == SeqsUpTo(SpanAlphabet, MaxSpan)

SelectorInit ==
    /\ pc = "select"
    /\ args \in {[kind |-> "innerSplit", text |-> t, preservePatterns |-> p] :
                    t \in SpanTexts, p \in PatternLists}
    /\ ts = NilSplitter
    /\ err = ""
    /\ input = <<>>
    /\ stack = <<>>
    /\ m = NoMerge
    /\ result = <<>>
    /\ fatal = ""
    /\ consumed = {}

InnerSplitCall ==
    /\ pc = "select"
    /\ result' = innerSplit([s |-> args.text, off |-> 0], args.preservePatterns)
    /\ pc' = "selected"
    /\ UNCHANGED <<args, ts, err, input, stack, m, fatal, consumed>>

SelectorNext == InnerSplitCall

SelectorSpec == SelectorInit /\ [][SelectorNext]_vars

Selected == pc = "selected"
Strings(splits) == [j \in 1..Len(splits) |-> splits[j].s]

\* The n characters of text from position p on are a maximal run of class.
MaximalRunAt(text, class, p, n) ==
    /\ n >= 1
    /\ p + n - 1 <= Len(text)
    /\ \A i \in p..(p + n - 1) : text[i] \in class
    /\ p = 1 \/ text[p - 1] \notin class
    /\ p + n - 1 = Len(text) \/ text[p + n] \notin class

\* The splits are the text cut at every occurrence of the splitter.
CutAtEvery(text, splitter, splits) ==
    /\ stringsJoin(Strings(splits), splitter) = text
    /\ \A j \in 1..Len(splits) : ~Contains(splits[j].s, splitter)

PlainText ==
    /\ \A i \in 1..Len(args.text) : args.text[i] \notin {"\n", "\r", "\t"}
    /\ \A n \in 1..Len(args.preservePatterns) :
           ~Contains(args.text, args.preservePatterns[n])

HasOneOf(list) == \E i \in 1..Len(list) : Contains(args.text, list[i])
HasWhitespace == \E i \in 1..Len(args.text) : args.text[i] \in WhitespaceClass

\* The splitter is the first string of the list that the text contains,
\* the splits are the text cut at every occurrence of it, and
\* splitterIsWhitespace is false.
SplitAtFirstOf(list) ==
    /\ \E i \in 1..Len(list) :
           /\ Contains(args.text, list[i])
           /\ \A j \in 1..(i - 1) : ~Contains(args.text, list[j])
           /\ result.splitter = list[i]
    /\ ~result.splitterIsWhitespace
    /\ CutAtEvery(args.text, result.splitter, result.splits)

\* C12 as stated: a text with no newline, no tab and no preserve-pattern
\* match that contains a terminator, full-width or half-width, is split at
\* the first terminator in priority order (full-width forms first), with
\* splitterIsWhitespace false, whether or not it holds whitespace.
TerminatorBeforeWhitespace ==
    (Selected /\ PlainText
       /\ HasOneOf(fullWidthNonWhitespaceSemanticSpliters \o nonWhitespaceSemanticSplitters))
    => SplitAtFirstOf(fullWidthNonWhitespaceSemanticSpliters \o nonWhitespaceSemanticSplitters)

\* C12 amended: such a text is split at its first full-width terminator if
\* it has one; otherwise at whitespace, with splitterIsWhitespace true, if
\* it holds whitespace, a half-width terminator or not; and at its first
\* half-width terminator only when it has neither.
TerminatorOrder ==
    (Selected /\ PlainText) =>
        /\ HasOneOf(fullWidthNonWhitespaceSemanticSpliters) =>
               SplitAtFirstOf(fullWidthNonWhitespaceSemanticSpliters)
        /\ (~HasOneOf(fullWidthNonWhitespaceSemanticSpliters) /\ HasWhitespace) =>
               /\ result.splitterIsWhitespace
               /\ result.splitter # <<>>
               /\ \A i \in 1..Len(result.splitter) : result.splitter[i] \in WhitespaceClass
        /\ ( /\ ~HasOneOf(fullWidthNonWhitespaceSemanticSpliters)
              /\ ~HasWhitespace
              /\ HasOneOf(nonWhitespaceSemanticSplitters) ) =>
               SplitAtFirstOf(nonWhitespaceSemanticSplitters)

\* A half-width terminator and whitespace in one text: whitespace is taken.
TerminatorOrderWitness ==
    /\ Selected
    /\ PlainText
    /\ ~HasOneOf(fullWidthNonWhitespaceSemanticSpliters)
    /\ HasOneOf(nonWhitespaceSemanticSplitters)
    /\ HasWhitespace
    /\ result.splitterIsWhitespace
    /\ Len(result.splits) >= 2

\* The text reaches the whitespace branch, its whitespace (what \s
\* matches) is in runs of one character, and `t` followed by `w` occurs.
SingleWhitespace ==
    \A i \in 1..(Len(args.text) - 1) :
        ~(args.text[i] \in WhitespaceClass /\ args.text[i + 1] \in WhitespaceClass)

FollowedBy(t, w) == w \in WhitespaceClass /\ Contains(args.text, t \o <<w>>)

EndsWith(s, t) == Len(s) >= Len(t) /\ SubSeq(s, Len(s) - Len(t) + 1, Len(s)) = t

\* C13: in the whitespace branch (no newline, tab, preserve-pattern match
\* or full-width terminator), when every whitespace run is one character
\* wide and some half-width terminator is followed by a whitespace
\* character, innerSplit returns such a whitespace character w as the
\* splitter with splitterIsWhitespace true, and for such a terminator t:
\* the splits joined by w are the text, every split but the last ends with
\* t, and no split holds t followed by w.
LookbehindRefinement ==
    ( /\ Selected
      /\ PlainText
      /\ ~HasOneOf(fullWidthNonWhitespaceSemanticSpliters)
      /\ SingleWhitespace
      /\ \E i \in 1..Len(nonWhitespaceSemanticSplitters), w \in WhitespaceClass :
             FollowedBy(nonWhitespaceSemanticSplitters[i], w) )
    => /\ result.splitterIsWhitespace
       /\ Len(result.splitter) = 1
       /\ \E i \in 1..Len(nonWhitespaceSemanticSplitters) :
              LET t == nonWhitespaceSemanticSplitters[i]
              IN  /\ FollowedBy(t, result.splitter[1])
                  /\ stringsJoin(Strings(result.splits), result.splitter) = args.text
                  /\ \A j \in 1..(Len(result.splits) - 1) : EndsWith(result.splits[j].s, t)
                  /\ \A j \in 1..Len(result.splits) :
                         ~Contains(result.splits[j].s, t \o result.splitter)

\* A whitespace character that no terminator precedes stays in its split.
LookbehindRefinementWitness ==
    /\ Selected
    /\ PlainText
    /\ ~HasOneOf(fullWidthNonWhitespaceSemanticSpliters)
    /\ SingleWhitespace
    /\ Len(result.splits) >= 2
    /\ result.splitterIsWhitespace
    /\ Len(result.splitter) = 1
    /\ \E j \in 1..Len(result.splits) : Contains(result.splits[j].s, result.splitter)
    /\ \E i \in 1..Len(nonWhitespaceSemanticSplitters) :
           FollowedBy(nonWhitespaceSemanticSplitters[i], result.splitter[1])

\* ------------------------------------------------ mergeSplits on its own
\* mergeSplits called as TestMergeSplits calls it, on a splitter made
\* without NewTextSplitter: any list of fragments, over-budget ones and
\* none at all included, with their token counts and the ids 0..n-1.
FragmentLists == UNION {[1..n -> Words] : n \in 0..MaxFrags}
Splitters == { <<>>, <<" ">>, <<FWStop>> }
MergeOverlaps == {0, 1}

\* The fragments as spans of strings.Join(fragments, splitter).
FragmentSpans(fragments, splitter) ==
    [j \in 1..Len(fragments) |->
        [s |-> fragments[j],
         off |-> IF j = 1 THEN 0
                 ELSE Len(stringsJoin(SubSeq(fragments, 1, j - 1), splitter))
                      + Len(splitter)]]

MergeInit ==
    /\ pc = "merge"
    /\ \E fragments \in FragmentLists, splitter \in Splitters,
          c \in ChunkSizes, o \in MergeOverlaps :
           /\ o <= c
           /\ args = [kind |-> "mergeSplits", splits |-> fragments,
                      splitter |-> splitter]
           /\ ts = NewSplitter(c, o, <<>>)
           /\ m = MergeCall(
                  [goodSplits |-> FragmentSpans(fragments, splitter),
                   goodSplitSizes |-> [j \in 1..Len(fragments) |->
                                          countTokenFunc(fragments[j])],
                   goodSplitIds |-> [j \in 1..Len(fragments) |-> j - 1],
                   splitter |-> splitter])
    /\ err = ""
    /\ input = <<>>
    /\ stack = <<>>
    /\ result = <<>>
    /\ fatal = ""
    /\ consumed = {}

\* The end of the loop of a direct call: the last chunk and `return merges`.
MergeSplitsReturn ==
    /\ pc = "merge"
    /\ stack = <<>>
    /\ m.i > Len(m.splits)
    /\ result' = IF Len(m.toMerge) > 0 THEN Emit(m.merges, m.toMerge, m.splitter)
                 ELSE m.merges
    /\ pc' = "done"
    /\ m' = NoMerge
    /\ UNCHANGED <<args, ts, err, input, stack, fatal, consumed>>

MergeNext == MergeStep \/ MergeSplitsReturn

MergeSpec == MergeInit /\ [][MergeNext]_vars

\* Greedy packing of the fragments args.splits, stated on its own: the run
\* that starts at fragment a and has grown to fragment b ends at b when b
\* is the last fragment or the next one, with one splitter, does not fit.
RECURSIVE SumSizes(_, _)
SumSizes(a, b) ==
    IF a > b THEN 0 ELSE countTokenFunc(args.splits[a]) + SumSizes(a + 1, b)

RunSize(a, b) == SumSizes(a, b) + countTokenFunc(args.splitter) * (b - a)

RECURSIVE RunEnd(_, _)
RunEnd(a, b) ==
    IF b = Len(args.splits) THEN b
    ELSE IF RunSize(a, b) + countTokenFunc(args.splits[b + 1])
               + countTokenFunc(args.splitter) > ts.chunkSize THEN b
    ELSE RunEnd(a, b + 1)

RECURSIVE Runs(_)
Runs(a) ==
    IF a > Len(args.splits) THEN <<>>
    ELSE <<[first |-> a, last |-> RunEnd(a, a)]>> \o Runs(RunEnd(a, a) + 1)

JoinedRun(r) == stringsJoin(SubSeq(args.splits, r.first, r.last), args.splitter)

RECURSIVE NonEmpty(_)
NonEmpty(strs) ==
    IF strs = <<>> THEN <<>>
    ELSE (IF Head(strs) = <<>> THEN <<>> ELSE <<Head(strs)>>) \o NonEmpty(Tail(strs))

AllRuns == [k \in 1..Len(Runs(1)) |-> JoinedRun(Runs(1)[k])]

\* C14 as stated: with overlap 0 the chunks mergeSplits returns are the
\* greedy runs of the fragments, each joined by the splitter, one chunk
\* for every run so that every fragment is in exactly one chunk, and no
\* chunk is the empty string.
GreedyEveryFragment ==
    (Done /\ ts.overlap = 0 /\ ts.chunkSize >= 1) =>
        /\ Strings(result) = AllRuns
        /\ \A k \in 1..Len(result) : result[k].s # <<>>

\* C14 amended: with overlap 0 the chunks are the greedy runs, joined by
\* the splitter, in order, without the runs whose join is the empty
\* string; a fragment over the budget is a run of its own and comes back
\* unchanged; no fragments give no chunks.
GreedyPacking ==
    (Done /\ ts.overlap = 0 /\ ts.chunkSize >= 1) =>
        /\ Strings(result) = NonEmpty(AllRuns)
        /\ \A k \in 1..Len(result) : result[k].s # <<>>
        /\ \A j \in 1..Len(args.splits) :
               countTokenFunc(args.splits[j]) > ts.chunkSize =>
                   \E k \in 1..Len(result) :
                       /\ result[k].s = args.splits[j]
                       /\ result[k].off = FragmentSpans(args.splits, args.splitter)[j].off
        /\ args.splits = <<>> => result = <<>>

\* A run of two fragments is emitted, a run whose join is empty is not,
\* and a fragment over the budget comes back alone.
GreedyPackingWitness ==
    /\ Done
    /\ args.kind = "mergeSplits"
    /\ ts.overlap = 0
    /\ ts.chunkSize >= 1
    /\ \E k \in 1..Len(Runs(1)) : JoinedRun(Runs(1)[k]) = <<>>
    /\ \E k \in 1..Len(Runs(1)) :
           Runs(1)[k].last > Runs(1)[k].first /\ JoinedRun(Runs(1)[k]) # <<>>
    /\ Len(result) >= 1

\* The token counts of the fragments in the accumulator, with one
\* splitter between each two.
RECURSIVE Held(_)
Held(toMerge) ==
    IF toMerge = <<>> THEN 0
    ELSE countTokenFunc(Head(toMerge).s)
         + (IF Len(toMerge) > 1 THEN m.splitterSize ELSE 0) + Held(Tail(toMerge))

\* C15: in every call of mergeSplits that Split makes, at every step of
\* its loop, size is the token count of the fragments in toMerge plus the
\* splitter cost between them; it is never negative, and 0 when toMerge is
\* empty.
SizeAccounting ==
    (pc = "merge" /\ ts.chunkSize >= 1) =>
        /\ m.size = Held(m.toMerge)
        /\ m.size >= 0
        /\ m.toMerge = <<>> => m.size = 0
====
